---- MODULE Spec2Model ----
(***************************************************************************)
(* Model of jules-scratch/verification/verify_membership_list.py.          *)
(*                                                                         *)
(* run_verification launches a headless browser, opens a context and a    *)
(* page, and then, inside try/except/finally, navigates, waits for the     *)
(* heading, waits for the row count, takes the success screenshot; the     *)
(* except branch prints the error and takes the error screenshot; the      *)
(* finally branch closes the browser.                                      *)
(*                                                                         *)
(* Every call of the Playwright API is one action whose outcome (returns   *)
(* or raises) is chosen by the environment.  The two expect(...) waits     *)
(* poll the page until the condition holds or the timeout has elapsed.     *)
(* print() is taken not to raise.  browser.close() is taken not to raise.  *)
(* The script is one process run; the files it writes stay on disk, so a   *)
(* sequence of process runs is modelled with the file system carried over. *)
(***************************************************************************)
EXTENDS Integers, Sequences, FiniteSets

\* ---------------------------------------------------------------- bounds
MaxRuns == 2          \* process runs in a row
MaxRows == 2          \* the page shows 0..MaxRows rows at a poll
PollInterval == 5000  \* ms between two polls of an expect(...) wait

\* ------------------------------------------------------ program constants
ExpectTimeout == 10000     \* timeout=10000 of both expect(...) calls
RequiredRowCount == 1      \* to_have_count(1, ...)

SuccessPath == "verification.png"
ErrorPath == "error.png"
Artifacts == {SuccessPath, ErrorPath}

SavedMessage == "Screenshot saved"
ErrorMessage == "An error occurred"

\* The calls of run_verification, by name.
AcquireSteps == {"launch", "new_context", "new_page"}
TrySteps == {"goto", "heading", "rows", "screenshot"}
PageOps == TrySteps \cup {"error_screenshot"}
Steps == AcquireSteps \cup PageOps \cup {"close"}

VARIABLES
    pc,         \* the statement run_verification is about to execute
    run,        \* number of the current process run
    browser,    \* "none": not launched, "open": live, "closed": released
    closeCalls, \* calls of browser.close() in this run
    files,      \* image files on disk (kept from run to run)
    before,     \* the files on disk when this run started
    wrote,      \* image files written by this run
    out,        \* lines printed by this run
    trace,      \* the calls made by this run, in order
    failed,     \* the calls of this run that raised
    elapsed,    \* ms spent in the expect(...) wait in progress
    headingSeen,\* the heading wait of this run has seen the heading visible
    rowsObs,    \* the row counts the row-count wait has seen in this run
    exc,        \* an exception is propagating out of the except branch
    raised      \* run_verification ended by raising

vars == <<pc, run, browser, closeCalls, files, before, wrote, out, trace,
          failed, elapsed, headingSeen, rowsObs, exc, raised>>

\* ---------------------------------------------------------------- helpers

\* page.screenshot(path=f) that returns: the file f exists afterwards; nothing
\* else on disk is touched.
WriteFileReplacing(fs, f) == {f}

WriteFile(fs, f) == fs \cup {f}

\* to_have_count(1): the locator matches exactly RequiredRowCount elements.
HasCountAtLeast(n) == n >= RequiredRowCount

HasCount(n) == n = RequiredRowCount

\* An expect(...) wait gives up when the next poll would fall after the timeout.
TimedOut(t) == t + PollInterval > ExpectTimeout

\* Where control goes when a statement of the try block raises: the except
\* branch, whose first statement prints the error.
ExceptEntrySkipsScreenshot == "finally"

ExceptEntry == "error_screenshot"

\* Where control goes when the last statement of the try block has returned.
AfterTryFallsThrough == "error_screenshot"

AfterTry == "finally"

\* Where control goes when the error screenshot has returned or raised.
AfterExceptSkipsClose == "done"

AfterExcept == "finally"

\* Where control goes after the finally branch: run_verification ends.
AfterFinallyTakesScreenshot == "error_screenshot"

AfterFinally == "done"

\* Where control goes when the heading wait has passed.
AfterHeadingSkipsRows == "screenshot"

AfterHeading == "rows"

\* Where a statement before the try block leaves the run when it raises.
AcquireFailExit == "done"

\* A statement of the try block raises: except Exception prints and goes on
\* to the error screenshot.
Caught(step) ==
    /\ failed' = failed \cup {step}
    /\ out' = Append(out, ErrorMessage)
    /\ pc' = ExceptEntry

\* A statement before the try block raises: nothing catches it.
Uncaught(step) ==
    /\ failed' = failed \cup {step}
    /\ raised' = TRUE
    /\ pc' = AcquireFailExit

\* ------------------------------------------------------------------- Init
Init ==
    /\ pc = "launch"
    /\ run = 1
    /\ browser = "none"
    /\ closeCalls = 0
    /\ files = {}
    /\ before = {}
    /\ wrote = {}
    /\ out = <<>>
    /\ trace = <<>>
    /\ failed = {}
    /\ elapsed = 0
    /\ headingSeen = FALSE
    /\ rowsObs = {}
    /\ exc = FALSE
    /\ raised = FALSE

\* ---------------------------------------------------------------- actions

\* browser = playwright.chromium.launch(headless=True)
Launch ==
    /\ pc = "launch"
    /\ trace' = Append(trace, "launch")
    /\ \E ok \in BOOLEAN :
        IF ok
        THEN /\ browser' = "open"
             /\ pc' = "new_context"
             /\ UNCHANGED <<failed, raised>>
        ELSE /\ Uncaught("launch")
             /\ UNCHANGED browser
    /\ UNCHANGED <<run, closeCalls, files, before, wrote, out, elapsed,
                   headingSeen, rowsObs, exc>>

\* context = browser.new_context()
NewContext ==
    /\ pc = "new_context"
    /\ trace' = Append(trace, "new_context")
    /\ \E ok \in BOOLEAN :
        IF ok
        THEN /\ pc' = "new_page"
             /\ UNCHANGED <<failed, raised>>
        ELSE Uncaught("new_context")
    /\ UNCHANGED <<run, browser, closeCalls, files, before, wrote, out,
                   elapsed, headingSeen, rowsObs, exc>>

\* page = context.new_page()
NewPage ==
    /\ pc = "new_page"
    /\ trace' = Append(trace, "new_page")
    /\ \E ok \in BOOLEAN :
        IF ok
        THEN /\ pc' = "goto"
             /\ UNCHANGED <<failed, raised>>
        ELSE Uncaught("new_page")
    /\ UNCHANGED <<run, browser, closeCalls, files, before, wrote, out,
                   elapsed, headingSeen, rowsObs, exc>>

\* page.goto("http://localhost:3000/memberships/listMembership")
Goto ==
    /\ pc = "goto"
    /\ trace' = Append(trace, "goto")
    /\ \E ok \in BOOLEAN :
        IF ok
        THEN /\ pc' = "heading"
             /\ UNCHANGED <<failed, out>>
        ELSE Caught("goto")
    /\ UNCHANGED <<run, browser, closeCalls, files, before, wrote, elapsed,
                   headingSeen, rowsObs, exc, raised>>

\* The heading wait as it would be if its timeout did not raise: the run
\* goes on to the row-count wait.
ExpectHeadingNoRaise ==
    /\ pc = "heading"
    /\ trace' = IF elapsed = 0 THEN Append(trace, "heading") ELSE trace
    /\ \E visible \in BOOLEAN :
        IF visible \/ TimedOut(elapsed)
        THEN /\ headingSeen' = (headingSeen \/ visible)
             /\ pc' = AfterHeading
             /\ elapsed' = 0
        ELSE /\ elapsed' = elapsed + PollInterval
             /\ UNCHANGED <<pc, headingSeen>>
    /\ UNCHANGED <<run, browser, closeCalls, files, before, wrote, out, failed,
                   rowsObs, exc, raised>>

\* expect(page.get_by_role("heading", ...)).to_be_visible(timeout=10000):
\* one poll of the wait.
ExpectHeading ==
    /\ pc = "heading"
    /\ trace' = IF elapsed = 0 THEN Append(trace, "heading") ELSE trace
    /\ \E visible \in BOOLEAN :
        IF visible
        THEN /\ headingSeen' = TRUE
             /\ pc' = AfterHeading
             /\ elapsed' = 0
             /\ UNCHANGED <<failed, out>>
        ELSE /\ UNCHANGED headingSeen
             /\ IF TimedOut(elapsed)
                THEN /\ Caught("heading")
                     /\ elapsed' = 0
                ELSE /\ elapsed' = elapsed + PollInterval
                     /\ UNCHANGED <<pc, failed, out>>
    /\ UNCHANGED <<run, browser, closeCalls, files, before, wrote, rowsObs,
                   exc, raised>>

\* expect(page.locator("#membershipsTableBody tr")).to_have_count(1,
\* timeout=10000): one poll of the wait.
ExpectRows ==
    /\ pc = "rows"
    /\ trace' = IF elapsed = 0 THEN Append(trace, "rows") ELSE trace
    /\ \E n \in 0..MaxRows :
        /\ rowsObs' = rowsObs \cup {n}
        /\ IF HasCount(n)
           THEN /\ pc' = "screenshot"
                /\ elapsed' = 0
                /\ UNCHANGED <<failed, out>>
           ELSE IF TimedOut(elapsed)
                THEN /\ Caught("rows")
                     /\ elapsed' = 0
                ELSE /\ elapsed' = elapsed + PollInterval
                     /\ UNCHANGED <<pc, failed, out>>
    /\ UNCHANGED <<run, browser, closeCalls, files, before, wrote,
                   headingSeen, exc, raised>>

\* page.screenshot(path=".../verification.png"); print("Screenshot saved ...")
Screenshot ==
    /\ pc = "screenshot"
    /\ trace' = Append(trace, "screenshot")
    /\ \E ok \in BOOLEAN :
        IF ok
        THEN /\ files' = WriteFile(files, SuccessPath)
             /\ wrote' = wrote \cup {SuccessPath}
             /\ out' = Append(out, SavedMessage)
             /\ pc' = AfterTry
             /\ UNCHANGED failed
        ELSE /\ Caught("screenshot")
             /\ UNCHANGED <<files, wrote>>
    /\ UNCHANGED <<run, browser, closeCalls, before, elapsed, headingSeen,
                   rowsObs, exc, raised>>

\* except branch: page.screenshot(path=".../error.png")
ErrorScreenshot ==
    /\ pc = "error_screenshot"
    /\ trace' = Append(trace, "error_screenshot")
    /\ \E ok \in BOOLEAN :
        IF ok
        THEN /\ files' = WriteFile(files, ErrorPath)
             /\ wrote' = wrote \cup {ErrorPath}
             /\ UNCHANGED <<failed, exc>>
        ELSE /\ failed' = failed \cup {"error_screenshot"}
             /\ exc' = TRUE
             /\ UNCHANGED <<files, wrote>>
    /\ pc' = AfterExcept
    /\ UNCHANGED <<run, browser, closeCalls, before, out, elapsed,
                   headingSeen, rowsObs, raised>>

\* finally: browser.close(); then the pending exception, if any, leaves
\* run_verification.
Finally ==
    /\ pc = "finally"
    /\ trace' = Append(trace, "close")
    /\ browser' = "closed"
    /\ closeCalls' = closeCalls + 1
    /\ raised' = exc
    /\ pc' = AfterFinally
    /\ UNCHANGED <<run, files, before, wrote, out, failed, elapsed,
                   headingSeen, rowsObs, exc>>

\* The script is started again: a new process, the same disk.
StartRun ==
    /\ pc = "done"
    /\ run < MaxRuns
    /\ run' = run + 1
    /\ pc' = "launch"
    /\ browser' = "none"
    /\ closeCalls' = 0
    /\ before' = files
    /\ wrote' = {}
    /\ out' = <<>>
    /\ trace' = <<>>
    /\ failed' = {}
    /\ elapsed' = 0
    /\ headingSeen' = FALSE
    /\ rowsObs' = {}
    /\ exc' = FALSE
    /\ raised' = FALSE
    /\ UNCHANGED files

Next ==
    \/ Launch
    \/ NewContext
    \/ NewPage
    \/ Goto
    \/ ExpectHeading
    \/ ExpectRows
    \/ Screenshot
    \/ ErrorScreenshot
    \/ Finally
    \/ StartRun

\* The statements of one run: each call returns or raises in finite time
\* (the waits by their timeout), so a run that has started goes on to its end.
RunStep ==
    \/ Launch
    \/ NewContext
    \/ NewPage
    \/ Goto
    \/ ExpectHeading
    \/ ExpectRows
    \/ Screenshot
    \/ ErrorScreenshot
    \/ Finally

Spec == Init /\ [][Next]_vars

FairSpec == Init /\ [][Next]_vars /\ WF_vars(RunStep)

\* ------------------------------------------------------------ type check
TypeOK ==
    /\ pc \in {"launch", "new_context", "new_page", "goto", "heading", "rows",
               "screenshot", "error_screenshot", "finally", "done"}
    /\ run \in 1..MaxRuns
    /\ browser \in {"none", "open", "closed"}
    /\ closeCalls \in Nat
    /\ files \subseteq Artifacts
    /\ before \subseteq Artifacts
    /\ wrote \subseteq Artifacts
    /\ failed \subseteq Steps
    /\ elapsed \in 0..ExpectTimeout
    /\ headingSeen \in BOOLEAN
    /\ rowsObs \subseteq 0..MaxRows
    /\ exc \in BOOLEAN
    /\ raised \in BOOLEAN

\* ------------------------------------------------------- derived notions
Done == pc = "done"

\* The calls made so far in this run, as a set.
Called == {trace[i] : i \in 1..Len(trace)}

\* The position of a call in the text of run_verification.
Rank(step) ==
    CASE step = "launch" -> 1
      [] step = "new_context" -> 2
      [] step = "new_page" -> 3
      [] step = "goto" -> 4
      [] step = "heading" -> 5
      [] step = "rows" -> 6
      [] step = "screenshot" -> 7
      [] step = "error_screenshot" -> 8
      [] step = "close" -> 9

\* The session was acquired in this run: launch has returned a browser.
Acquired == browser # "none"

\* What a run with the calls in f raising writes, prints and closes.
ExpectedWrote(f) ==
    IF f \cap AcquireSteps # {} THEN {}
    ELSE IF f \cap TrySteps = {} THEN {SuccessPath}
    ELSE IF "error_screenshot" \in f THEN {}
    ELSE {ErrorPath}

ExpectedOut(f) ==
    IF f \cap AcquireSteps # {} THEN <<>>
    ELSE IF f \cap TrySteps = {} THEN <<SavedMessage>>
    ELSE <<ErrorMessage>>

ExpectedCloseCalls(f) == IF f \cap AcquireSteps # {} THEN 0 ELSE 1

\* ------------------------------------------------------------------ claims

\* C1: in every run, whichever call raises, the browser that launch returned
\* is closed exactly once before run_verification ends.
C1_ReleasedExactlyOnce == (Done /\ Acquired) => closeCalls = 1

C3_ExactlyOneImage == Done => Cardinality(wrote) = 1

\* C3 amended: every run writes at most one image file, never both; it
\* writes none exactly when launch, new_context, new_page or the error
\* screenshot raises.
C3_AtMostOneImage ==
    /\ Cardinality(wrote) <= 1
    /\ Done =>
          (wrote = {} <=>
              failed \cap (AcquireSteps \cup {"error_screenshot"}) # {})

C3_Witness ==
    /\ Done
    /\ "screenshot" \in failed
    /\ wrote = {ErrorPath}

\* C4: a page that shows the heading within the window and shows at least
\* one row at every poll of the window ends with verification.png written
\* and error.png not written (no call other than the row-count wait raises).
C4_AtLeastOneRowSucceeds ==
    (/\ Done
     /\ headingSeen
     /\ rowsObs # {}
     /\ \A n \in rowsObs : n >= 1
     /\ failed \subseteq {"rows"}) => wrote = {SuccessPath}

\* C5 as stated: when the heading is never visible within the window, the
\* run ends with error.png written, verification.png not written, and the
\* row-count wait and the success screenshot never attempted.
C5_NoHeadingWritesError ==
    (Done /\ "heading" \in Called /\ ~headingSeen) =>
        /\ ErrorPath \in wrote
        /\ SuccessPath \notin wrote
        /\ "rows" \notin Called
        /\ "screenshot" \notin Called

\* C5 amended: the heading wait always ends and the run goes on to its end;
\* when the heading was never visible within the window, the row-count wait
\* and the success screenshot are never attempted, verification.png is not
\* written, the error screenshot is attempted, and error.png is written
\* unless the error screenshot itself raises.
C5_NoHeadingTerminates ==
    /\ []((pc # "heading" /\ "heading" \in Called /\ ~headingSeen) =>
            /\ "heading" \in failed
            /\ "rows" \notin Called
            /\ "screenshot" \notin Called
            /\ SuccessPath \notin wrote
            /\ Done =>
                  /\ "error_screenshot" \in Called
                  /\ ErrorPath \in wrote <=> "error_screenshot" \notin failed)
    /\ (pc = "heading") ~> Done

C5_Witness ==
    /\ Done
    /\ "heading" \in Called
    /\ ~headingSeen
    /\ wrote = {ErrorPath}

\* C6 as stated: when goto raises, error.png is written, verification.png
\* is not, and the browser is closed exactly once.
C6_UnreachableWritesError ==
    (Done /\ "goto" \in failed) =>
        /\ ErrorPath \in wrote
        /\ SuccessPath \notin wrote
        /\ closeCalls = 1

\* C6 amended: when goto raises, the run takes the path of a failed wait:
\* the next calls are the error screenshot and then close; error.png is
\* written unless the error screenshot itself raises, verification.png is
\* not written, and the browser is closed exactly once, as it is in a run
\* in which no call raises.
C6_UnreachableErrorPath ==
    Done =>
        /\ ("goto" \in failed) =>
              /\ trace = <<"launch", "new_context", "new_page", "goto",
                           "error_screenshot", "close">>
              /\ ErrorPath \in wrote <=> "error_screenshot" \notin failed
              /\ SuccessPath \notin wrote
              /\ closeCalls = 1
        /\ (failed = {}) => closeCalls = 1

C6_Witness ==
    /\ Done
    /\ "goto" \in failed
    /\ wrote = {ErrorPath}
    /\ closeCalls = 1

\* C7 as stated (its last part): after a run that wrote an image, the image
\* files present are those of that run only: a failing run leaves no
\* verification.png of an earlier run, a succeeding run no error.png.
C7_FilesReflectThisRun == (Done /\ wrote # {}) => files = wrote

\* C7 amended: what a run prints, writes and closes is decided by which of
\* its own calls raise, whatever earlier runs did and left on disk; the
\* files present after a run are those present before it together with the
\* one it wrote, so an image of the other kind left by an earlier run stays.
C7_RunDecidedByItsOwnSteps ==
    Done =>
        /\ wrote = ExpectedWrote(failed)
        /\ out = ExpectedOut(failed)
        /\ closeCalls = ExpectedCloseCalls(failed)
        /\ files = before \cup wrote

C7_Witness ==
    /\ Done
    /\ run = 2
    /\ before = {SuccessPath}
    /\ wrote = {ErrorPath}
    /\ files = Artifacts

\* C8: the calls of a run are made in the order of the text, each at most
\* once; the success screenshot is attempted only after goto, the heading
\* wait and the row-count wait have each been made and have not raised, and
\* verification.png is written only by such a run.
C8_FixedOrderNoRetry ==
    /\ \A i, j \in 1..Len(trace) : i < j => Rank(trace[i]) < Rank(trace[j])
    /\ ("screenshot" \in Called \/ pc = "screenshot" \/ SuccessPath \in wrote) =>
          /\ {"goto", "heading", "rows"} \subseteq Called
          /\ failed \cap {"goto", "heading", "rows"} = {}
          /\ headingSeen
          /\ RequiredRowCount \in rowsObs

C8_Witness ==
    /\ Done
    /\ trace = <<"launch", "new_context", "new_page", "goto", "heading",
                 "rows", "screenshot", "close">>
    /\ wrote = {SuccessPath}

C10_PageUsedWhileSessionLive ==
    /\ pc \in PageOps => browser = "open"
    /\ \A i \in 1..Len(trace) :
          trace[i] \in PageOps =>
              /\ \E j \in 1..(i - 1) : trace[j] = "launch"
              /\ \A j \in 1..i : trace[j] # "close"
    /\ browser = "closed" =>
          /\ Done
          /\ trace[Len(trace)] = "close"

C10_Witness ==
    /\ Done
    /\ browser = "closed"
    /\ "error_screenshot" \in Called
    /\ "screenshot" \in Called

====
